---- MODULE Spec2Model ----
(***************************************************************************)
(* gRNA_finder.py: the Candidate Finder (find_gRNA_candidates), the        *)
(* Off-Target Classifier (filter_offtargets) and the pipeline (main).      *)
(* Text is a sequence of one-character strings; a file is a record that   *)
(* says whether it exists and holds its content.                           *)
(***************************************************************************)
EXTENDS Integers, Sequences, FiniteSets, TLC

VARIABLES
    fs,           \* path -> the file: [exists, content]
    io_log,       \* the I/O performed so far, in order: <<kind, path>>
    gRNA_length,  \* the protospacer length argument
    stringency,   \* the stringency level argument
    save_temp,    \* main's --save_temp flag
    find_ret,     \* outcome of find_gRNA_candidates
    flt_ret,      \* outcome of filter_offtargets
    flt_ret2,     \* outcome of filter_offtargets run on the file it produced
    tool_exit,    \* exit status of the external alignment tool
    pc            \* position of the run

vars == <<fs, io_log, gRNA_length, stringency, save_temp, find_ret, flt_ret,
          flt_ret2, tool_exit, pc>>

\* ------------------------------------------------------------- bounds
MaxRuns == 2
MaxRunLen == 8
MaxLines == 3
MaxToolLines == 1

\* ---------------------------------------------------------- constants
MIN_GRNA_LENGTH == 12
DEFAULT_GRNA_LENGTH == 20
DEFAULT_MISMATCHES == 3
DEFAULT_BULGE == 0

NoFile == [exists |-> FALSE, content |-> <<>>]
File(content) == [exists |-> TRUE, content |-> content]
NotCalled == [status |-> "not_called"]

Range(s) == {s[i] : i \in 1..Len(s)}

\* ------------------------------------------------------ str primitives
LowerChars ==
    {"a", "b", "c", "d", "e", "f", "g", "h", "i", "j", "k", "l", "m", "n",
     "o", "p", "q", "r", "s", "t", "u", "v", "w", "x", "y", "z"}

UpperOf ==
    [c \in LowerChars |->
        CASE c = "a" -> "A" [] c = "b" -> "B" [] c = "c" -> "C" [] c = "d" -> "D"
          [] c = "e" -> "E" [] c = "f" -> "F" [] c = "g" -> "G" [] c = "h" -> "H"
          [] c = "i" -> "I" [] c = "j" -> "J" [] c = "k" -> "K" [] c = "l" -> "L"
          [] c = "m" -> "M" [] c = "n" -> "N" [] c = "o" -> "O" [] c = "p" -> "P"
          [] c = "q" -> "Q" [] c = "r" -> "R" [] c = "s" -> "S" [] c = "t" -> "T"
          [] c = "u" -> "U" [] c = "v" -> "V" [] c = "w" -> "W" [] c = "x" -> "X"
          [] c = "y" -> "Y" [] OTHER -> "Z"]

islower(c) == c \in LowerChars

upper(text) ==
    [i \in 1..Len(text) |-> IF islower(text[i]) THEN UpperOf[text[i]] ELSE text[i]]

\* str.translate(DNA_COMPLEMENT): characters outside the table are kept.
DNA_COMPLEMENT(c) ==
    CASE c = "A" -> "T"
      [] c = "T" -> "A"
      [] c = "C" -> "G"
      [] c = "G" -> "C"
      [] OTHER -> c

reverse_complement(seq) ==
    [i \in 1..Len(seq) |-> DNA_COMPLEMENT(seq[Len(seq) + 1 - i])]

RECURSIVE count_from(_, _)
count_from(seq, i) ==
    IF i > Len(seq) THEN 0
    ELSE (IF islower(seq[i]) THEN 1 ELSE 0) + count_from(seq, i + 1)

count_mismatches(seq) == count_from(seq, 1)

\* ---------------------------------------------------- Candidate Finder
\* The character class [ATGC] of the pattern.
ATGC == {"A", "T", "G", "C"}

\* (?=([ATGC]{L}[ATGC]GG)) tried at the 1-based offset i.
lookahead_matches(s, L, i) ==
    /\ i + L + 2 <= Len(s)
    /\ \A k \in i..(i + L) : s[k] \in ATGC
    /\ s[i + L + 1] = "G"
    /\ s[i + L + 2] = "G"

\* The pattern without its lookahead: a match consumes its characters and the
\* scan resumes after it.
RECURSIVE findall_consuming(_, _, _)
findall_consuming(s, L, i) ==
    IF i > Len(s) THEN <<>>
    ELSE IF lookahead_matches(s, L, i)
         THEN <<SubSeq(s, i, i + L + 2)>> \o findall_consuming(s, L, i + L + 3)
         ELSE findall_consuming(s, L, i + 1)

\* findall of a zero-width match: every offset is tried, one group per match.
RECURSIVE findall_from(_, _, _)
findall_from(s, L, i) ==
    IF i > Len(s) THEN <<>>
    ELSE (IF lookahead_matches(s, L, i) THEN <<SubSeq(s, i, i + L + 2)>> ELSE <<>>)
         \o findall_from(s, L, i + 1)

pattern_findall_consuming(s, L) == findall_consuming(s, L, 1)

pattern_findall(s, L) == findall_from(s, L, 1)

\* The bound checked one too low.
length_invalid_off_by_one(L) == L < MIN_GRNA_LENGTH - 1

length_invalid(L) == L < MIN_GRNA_LENGTH

unique_reverse(forward, reverse) ==
    LET set_forward == Range(forward)
    IN  SelectSeq(reverse, LAMBDA m : reverse_complement(m) \notin set_forward)

find_gRNA_candidates(content, L) ==
    IF length_invalid(L)
    THEN [status |-> "ValueError", value |-> <<>>, io |-> <<>>]
    ELSE LET dna_seq == upper(content)
             forward == pattern_findall(dna_seq, L)
             reverse == pattern_findall(reverse_complement(dna_seq), L)
         IN  [status |-> "ok",
              value  |-> forward \o unique_reverse(forward, reverse),
              io     |-> << <<"read", "input">> >>]

\* ------------------------------------------------- Off-Target Classifier
Whitespace == {" ", "\t", "\n", "\r"}

RECURSIVE lstrip(_)
lstrip(s) == IF s # <<>> /\ Head(s) \in Whitespace THEN lstrip(Tail(s)) ELSE s

RECURSIVE rstrip(_)
rstrip(s) ==
    IF s # <<>> /\ s[Len(s)] \in Whitespace THEN rstrip(SubSeq(s, 1, Len(s) - 1)) ELSE s

strip(s) == rstrip(lstrip(s))

startswith(s, c) == s # <<>> /\ s[1] = c

\* str.split(sep): the fields between the separators, empty fields included.
RECURSIVE split(_, _)
split(s, sep) ==
    IF \E i \in 1..Len(s) : s[i] = sep
    THEN LET i == CHOOSE k \in 1..Len(s) : s[k] = sep /\ \A j \in 1..(k - 1) : s[j] # sep
         IN  <<SubSeq(s, 1, i - 1)>> \o split(SubSeq(s, i + 1, Len(s)), sep)
    ELSE <<s>>

\* A slice bound as the language clamps it: negative bounds count from the end.
slice_bound(i, n) == IF i < 0 THEN (IF i + n < 0 THEN 0 ELSE i + n) ELSE (IF i > n THEN n ELSE i)

slice(seq, lo, hi) ==
    SubSeq(seq, slice_bound(lo, Len(seq)) + 1, slice_bound(hi, Len(seq)))

\* seq[:-15], seq[-15:-3], seq[-3:]
split_regions(seq) ==
    [distal   |-> slice(seq, 0, -15),
     proximal |-> slice(seq, -15, -3),
     pam      |-> slice(seq, -3, Len(seq))]

\* The maximum level with the distal bound of the high level (dmm < 2 for pmm = 1).
passes_stringency_loose_maximum(dna_seq, level) ==
    LET regions == split_regions(dna_seq)
        dmm == count_mismatches(regions.distal)
        pmm == count_mismatches(regions.proximal)
    IN  IF level = "high"
        THEN (IF (pmm = 0) \/ (pmm = 1 /\ dmm < 2) THEN "True" ELSE "False")
        ELSE IF level = "maximum"
        THEN (IF (pmm = 0) \/ (pmm = 1 /\ dmm < 2) \/ (pmm = 2 /\ dmm < 2)
              THEN "True" ELSE "False")
        ELSE "ValueError"

\* "True" when the off-target is disqualifying, "ValueError" for an unknown level.
passes_stringency(dna_seq, level) ==
    LET regions == split_regions(dna_seq)
        dmm == count_mismatches(regions.distal)
        pmm == count_mismatches(regions.proximal)
    IN  IF level = "high"
        THEN (IF (pmm = 0) \/ (pmm = 1 /\ dmm < 2) THEN "True" ELSE "False")
        ELSE IF level = "maximum"
        THEN (IF (pmm = 0) \/ (pmm = 1 /\ dmm < 5) \/ (pmm = 2 /\ dmm < 2)
              THEN "True" ELSE "False")
        ELSE "ValueError"

\* A marker that itself holds lowercase characters.
on_target_marker_lowercase == <<" ", "#", " ", "0", "m", "m">>

\* " # 0MM"
on_target_marker == <<" ", "#", " ", "0", "M", "M">>

\* lines = [line.strip() for line in f if line.strip()]
read_lines(content) ==
    LET stripped == [i \in 1..Len(content) |-> strip(content[i])]
    IN  SelectSeq(stripped, LAMBDA l : l # <<>>)

\* The header lines in reverse order.
headers_reversed(lines) ==
    LET h == SelectSeq(lines, LAMBDA l : startswith(l, "#"))
    IN  [i \in 1..Len(h) |-> h[Len(h) + 1 - i]]

headers_of(lines) == SelectSeq(lines, LAMBDA l : startswith(l, "#"))

\* Rows of fewer than four fields dropped instead of failing the run.
entries_skipping_malformed(lines) ==
    SelectSeq(lines, LAMBDA l : ~startswith(l, "#") /\ Len(split(l, "\t")) >= 4)

entries_of(lines) == SelectSeq(lines, LAMBDA l : ~startswith(l, "#"))

\* cols[3] of some entry does not exist.
grouping_raises(entries) == \E i \in 1..Len(entries) : Len(split(entries[i], "\t")) < 4

\* (line, aligned_seq) with the group key, per entry.
parse_entries(entries) ==
    [i \in 1..Len(entries) |->
        LET cols == split(entries[i], "\t")
        IN  [line |-> entries[i], gRNA_id |-> cols[1], aligned_seq |-> cols[4]]]

\* The keys of grouped, in insertion order.
RECURSIVE grouped_keys(_, _, _)
grouped_keys(parsed, i, seen) ==
    IF i > Len(parsed) THEN seen
    ELSE IF parsed[i].gRNA_id \in Range(seen)
         THEN grouped_keys(parsed, i + 1, seen)
         ELSE grouped_keys(parsed, i + 1, Append(seen, parsed[i].gRNA_id))

grouped_records(parsed, gRNA_id) == SelectSeq(parsed, LAMBDA r : r.gRNA_id = gRNA_id)

\* The scan of one group's records, with its break.
RECURSIVE scan_records(_, _, _, _)
scan_records(records, k, level, has_on_target) ==
    IF k > Len(records)
    THEN [has_on_target |-> has_on_target, exclude |-> FALSE, raised |-> FALSE]
    ELSE IF count_mismatches(records[k].aligned_seq) = 0
         THEN scan_records(records, k + 1, level, TRUE)
         ELSE LET verdict == passes_stringency(records[k].aligned_seq, level)
              IN  IF verdict = "ValueError"
                  THEN [has_on_target |-> has_on_target, exclude |-> FALSE, raised |-> TRUE]
                  ELSE IF verdict = "True"
                  THEN [has_on_target |-> has_on_target, exclude |-> TRUE, raised |-> FALSE]
                  ELSE scan_records(records, k + 1, level, has_on_target)

marked_lines(records) ==
    [k \in 1..Len(records) |->
        records[k].line \o (IF count_mismatches(records[k].aligned_seq) = 0
                            THEN on_target_marker ELSE <<>>)]

\* The loop over grouped.items().
RECURSIVE classify_groups(_, _, _, _, _, _)
classify_groups(parsed, keys, g, level, accepted_lines, accepted_ids) ==
    IF g > Len(keys)
    THEN [raised |-> FALSE, accepted_lines |-> accepted_lines, accepted_ids |-> accepted_ids]
    ELSE LET records == grouped_records(parsed, keys[g])
             scan == scan_records(records, 1, level, FALSE)
         IN  IF scan.raised
             THEN [raised |-> TRUE, accepted_lines |-> accepted_lines,
                   accepted_ids |-> accepted_ids]
             ELSE IF scan.has_on_target /\ ~scan.exclude
             THEN classify_groups(parsed, keys, g + 1, level,
                                  accepted_lines \o marked_lines(records),
                                  Append(accepted_ids, keys[g]))
             ELSE classify_groups(parsed, keys, g + 1, level, accepted_lines, accepted_ids)

\* filter_offtargets(src, dst, level) on the content of src: its outcome, what
\* it writes to dst (when status is "ok": the write is reached) and its I/O.
filter_offtargets(content, src, dst, level) ==
    LET lines == read_lines(content)
        headers == headers_of(lines)
        entries == entries_of(lines)
        opened == << <<"read", src>> >>
    IN  IF grouping_raises(entries)
        THEN [status |-> "IndexError", accepted_ids |-> <<>>, written |-> <<>>, io |-> opened]
        ELSE LET parsed == parse_entries(entries)
                 done == classify_groups(parsed, grouped_keys(parsed, 1, <<>>), 1, level,
                                         <<>>, <<>>)
             IN  IF done.raised
                 THEN [status |-> "ValueError", accepted_ids |-> <<>>, written |-> <<>>,
                       io |-> opened]
                 ELSE [status |-> "ok", accepted_ids |-> done.accepted_ids,
                       written |-> headers \o done.accepted_lines,
                       io |-> Append(opened, <<"write", dst>>)]

\* ------------------------------------------------------------- inputs
\* DNA input files: up to MaxRuns runs of one character, each of 1..MaxRunLen.
FileBases == {"A", "C", "G", "T", "g", "N"}

Run(c, n) == [i \in 1..n |-> c]

RECURSIVE RunSeqs(_)
RunSeqs(k) ==
    IF k = 0 THEN {<<>>}
    ELSE LET shorter == RunSeqs(k - 1)
         IN  shorter \cup {s \o Run(c, n) : s \in shorter, c \in FileBases, n \in 1..MaxRunLen}

SeqInputs == RunSeqs(MaxRuns)

LengthInputs == {MIN_GRNA_LENGTH - 1, MIN_GRNA_LENGTH, MIN_GRNA_LENGTH + 1}

Paths == {"input", "co_in", "co_out", "out", "out2"}

EmptyFs == [p \in Paths |-> NoFile]

\* ------------------------------------------ find_gRNA_candidates alone
InitFinder ==
    /\ \E content \in SeqInputs : fs = [EmptyFs EXCEPT !["input"] = File(content)]
    /\ gRNA_length \in LengthInputs
    /\ io_log = <<>>
    /\ stringency = "high"
    /\ save_temp = FALSE
    /\ find_ret = NotCalled
    /\ flt_ret = NotCalled
    /\ flt_ret2 = NotCalled
    /\ tool_exit = -1
    /\ pc = "finder"

CallFinder ==
    /\ pc = "finder"
    /\ LET r == find_gRNA_candidates(fs["input"].content, gRNA_length)
       IN  /\ find_ret' = [status |-> r.status, value |-> r.value]
           /\ io_log' = io_log \o r.io
    /\ pc' = "finder_done"
    /\ UNCHANGED <<fs, gRNA_length, stringency, save_temp, flt_ret, flt_ret2, tool_exit>>

NextFinder == CallFinder

SpecFinder == InitFinder /\ [][NextFinder]_vars

\* ------------------------------------------------ filter_offtargets alone
RECURSIVE join(_, _)
join(fields, sep) ==
    IF Len(fields) = 0 THEN <<>>
    ELSE IF Len(fields) = 1 THEN fields[1]
    ELSE fields[1] \o <<sep>> \o join(Tail(fields), sep)

\* An aligned sequence of DEFAULT_GRNA_LENGTH + 3 characters with d mismatches
\* in the distal zone, p in the proximal zone and m in the PAM.
AlignedSeq(d, p, m) ==
    Run("a", d) \o Run("A", DEFAULT_GRNA_LENGTH - 12 - d)
        \o Run("c", p) \o Run("C", 12 - p)
        \o Run("t", m) \o Run("T", 1 - m) \o <<"G", "G">>

DataLine(id, profile, extra) ==
    join(<<id, <<"x">>, <<"7">>, AlignedSeq(profile[1], profile[2], profile[3])>> \o extra, "\t")

Guide1 == <<"g", "1">>
Guide2 == <<"g", "2">>

Profiles1 ==
    {<<0, 0, 0>>, <<1, 0, 0>>, <<1, 1, 0>>, <<2, 1, 0>>, <<4, 1, 0>>, <<5, 1, 0>>,
     <<1, 2, 0>>, <<2, 2, 0>>}

Profiles2 == {<<0, 0, 0>>, <<2, 1, 0>>}

HeaderLines == {<<"#", "h">>, <<"#", "k", " ">>}

MalformedLines == {join(<<Guide1, <<"x">>, <<"7">>>>, "\t")}

LinePool ==
    HeaderLines
        \cup MalformedLines
        \cup {DataLine(Guide1, pr, <<>>) : pr \in Profiles1}
        \cup {DataLine(Guide2, pr, << <<"+">> >>) : pr \in Profiles2}

RECURSIVE LineSeqs(_)
LineSeqs(k) ==
    IF k = 0 THEN {<<>>}
    ELSE LET shorter == LineSeqs(k - 1)
         IN  shorter \cup {Append(s, l) : s \in shorter, l \in LinePool}

FileInputs == LineSeqs(MaxLines)

StringencyInputs == {"high", "maximum", "low"}

InitFilter ==
    /\ \E content \in FileInputs : fs = [EmptyFs EXCEPT !["co_out"] = File(content)]
    /\ stringency \in StringencyInputs
    /\ gRNA_length = DEFAULT_GRNA_LENGTH
    /\ io_log = <<>>
    /\ save_temp = FALSE
    /\ find_ret = NotCalled
    /\ flt_ret = NotCalled
    /\ flt_ret2 = NotCalled
    /\ tool_exit = -1
    /\ pc = "filter"

CallFilter ==
    /\ pc = "filter"
    /\ LET r == filter_offtargets(fs["co_out"].content, "co_out", "out", stringency)
       IN  /\ flt_ret' = [status |-> r.status, accepted_ids |-> r.accepted_ids]
           /\ fs' = IF r.status = "ok" THEN [fs EXCEPT !["out"] = File(r.written)] ELSE fs
           /\ io_log' = io_log \o r.io
    /\ pc' = "filter_done"
    /\ UNCHANGED <<gRNA_length, stringency, save_temp, find_ret, flt_ret2, tool_exit>>

\* filter_offtargets on the file the first call wrote.
CallFilterAgain ==
    /\ pc = "filter_done"
    /\ flt_ret.status = "ok"
    /\ LET r == filter_offtargets(fs["out"].content, "out", "out2", stringency)
       IN  /\ flt_ret2' = [status |-> r.status, accepted_ids |-> r.accepted_ids]
           /\ fs' = IF r.status = "ok" THEN [fs EXCEPT !["out2"] = File(r.written)] ELSE fs
           /\ io_log' = io_log \o r.io
    /\ pc' = "refilter_done"
    /\ UNCHANGED <<gRNA_length, stringency, save_temp, find_ret, flt_ret, tool_exit>>

NextFilter == CallFilter \/ CallFilterAgain

SpecFilter == InitFilter /\ [][NextFilter]_vars

\* ------------------------------------------------------------ pipeline
\* The lines make_CO_input writes: the genome path, the pattern with the bulge
\* sizes, then one line per guide with its identifier g1, g2, ...
make_CO_input(gRNAs, genome_path, L, mismatches, bulge) ==
    << <<genome_path>>, <<Run("N", L) \o <<"N", "G", "G">>, bulge, bulge>> >>
        \o [i \in 1..Len(gRNAs) |-> <<gRNAs[i], mismatches, <<"g", i>>>>]

\* The CalledProcessError reported but not re-raised.
run_CO_swallows(exit_status) == FALSE

\* subprocess.run(check=True): CalledProcessError on a non-zero exit, re-raised.
run_CO_raises(exit_status) == exit_status # 0

MainSeqInputs ==
    {<<>>,
     Run("A", 8),
     Run("C", 8) \o Run("G", 8),
     Run("T", 8) \o Run("G", 8),
     Run("c", 8) \o Run("a", 8)}

ToolOutputs == LineSeqs(MaxToolLines)

Init ==
    /\ \E content \in MainSeqInputs : fs = [EmptyFs EXCEPT !["input"] = File(content)]
    /\ gRNA_length \in LengthInputs
    /\ stringency \in {"high", "maximum"}
    /\ save_temp \in BOOLEAN
    /\ io_log = <<>>
    /\ find_ret = NotCalled
    /\ flt_ret = NotCalled
    /\ flt_ret2 = NotCalled
    /\ tool_exit = -1
    /\ pc = "main"

\* Step 1: the search; an error leaves main, an empty list returns from it.
SearchStep ==
    /\ pc = "main"
    /\ LET r == find_gRNA_candidates(fs["input"].content, gRNA_length)
       IN  /\ find_ret' = [status |-> r.status, value |-> r.value]
           /\ io_log' = io_log \o r.io
           /\ pc' = IF r.status # "ok" THEN "exit_error"
                    ELSE IF r.value = <<>> THEN "exit_no_candidates"
                    ELSE "prepare"
    /\ UNCHANGED <<fs, gRNA_length, stringency, save_temp, flt_ret, flt_ret2, tool_exit>>

\* Step 2: named files, or two temporary files created empty.
PrepareFiles ==
    /\ pc = "prepare"
    /\ fs' = IF save_temp THEN fs
             ELSE [fs EXCEPT !["co_in"] = File(<<>>), !["co_out"] = File(<<>>)]
    /\ pc' = "make_input"
    /\ UNCHANGED <<io_log, gRNA_length, stringency, save_temp, find_ret, flt_ret, flt_ret2,
                   tool_exit>>

MakeInput ==
    /\ pc = "make_input"
    /\ fs' = [fs EXCEPT !["co_in"] =
                 File(make_CO_input(find_ret.value, "genome", gRNA_length,
                                    DEFAULT_MISMATCHES, DEFAULT_BULGE))]
    /\ io_log' = Append(io_log, <<"write", "co_in">>)
    /\ pc' = "run_tool"
    /\ UNCHANGED <<gRNA_length, stringency, save_temp, find_ret, flt_ret, flt_ret2, tool_exit>>

\* The external tool: any exit status, any output file.
RunTool ==
    /\ pc = "run_tool"
    /\ \E exit_status \in {0, 1} :
         /\ tool_exit' = exit_status
         /\ \/ /\ exit_status = 0
               /\ \E produced \in ToolOutputs :
                      fs' = [fs EXCEPT !["co_out"] = File(produced)]
            \/ /\ exit_status # 0
               /\ \/ UNCHANGED fs
                  \/ \E produced \in ToolOutputs :
                         fs' = [fs EXCEPT !["co_out"] = File(produced)]
         /\ pc' = IF run_CO_raises(exit_status) THEN "finally" ELSE "filter"
    /\ io_log' = Append(io_log, <<"exec", "cas-offinder">>)
    /\ UNCHANGED <<gRNA_length, stringency, save_temp, find_ret, flt_ret, flt_ret2>>

FilterStep ==
    /\ pc = "filter"
    /\ fs["co_out"].exists
    /\ LET r == filter_offtargets(fs["co_out"].content, "co_out", "out", stringency)
       IN  /\ flt_ret' = [status |-> r.status, accepted_ids |-> r.accepted_ids]
           /\ fs' = IF r.status = "ok" THEN [fs EXCEPT !["out"] = File(r.written)] ELSE fs
           /\ io_log' = io_log \o r.io
    /\ pc' = "finally"
    /\ UNCHANGED <<gRNA_length, stringency, save_temp, find_ret, flt_ret2, tool_exit>>

\* The finally block, then the exception propagates or main completes.
Cleanup ==
    /\ pc = "finally"
    /\ fs' = IF save_temp THEN fs
             ELSE [fs EXCEPT !["co_in"] = NoFile, !["co_out"] = NoFile]
    /\ pc' = IF tool_exit = 0 /\ flt_ret.status = "ok" THEN "exit_ok" ELSE "exit_error"
    /\ UNCHANGED <<io_log, gRNA_length, stringency, save_temp, find_ret, flt_ret, flt_ret2,
                   tool_exit>>

Next == SearchStep \/ PrepareFiles \/ MakeInput \/ RunTool \/ FilterStep \/ Cleanup

Spec == Init /\ [][Next]_vars

\* ------------------------------------------- claims: Candidate Finder
FinderReturned == pc = "finder_done" /\ find_ret.status = "ok"

IsDNA(s) == \A i \in 1..Len(s) : s[i] \in {"A", "C", "G", "T"}

EndsInGG(w) == Len(w) >= 2 /\ w[Len(w) - 1] = "G" /\ w[Len(w)] = "G"

\* The windows of the given width that end in GG, by increasing start offset.
RECURSIVE WindowsEndingGG(_, _, _)
WindowsEndingGG(s, width, i) ==
    IF i + width - 1 > Len(s) THEN <<>>
    ELSE LET w == SubSeq(s, i, i + width - 1)
         IN  (IF EndsInGG(w) THEN <<w>> ELSE <<>>) \o WindowsEndingGG(s, width, i + 1)

HasPair(s, c) == \E i \in 1..(Len(s) - 1) : s[i] = c /\ s[i + 1] = c

Occurrences(list, x) == Cardinality({i \in 1..Len(list) : list[i] = x})

NormalisedInput == upper(fs["input"].content)

\* C2: the returned list never holds, at two different positions, two entries
\* that are reverse complements of each other (one representative per
\* strand-equivalence class).
C2_OnePerStrandClass ==
    (FinderReturned /\ IsDNA(NormalisedInput) /\ gRNA_length >= MIN_GRNA_LENGTH)
        => \A i, j \in 1..Len(find_ret.value) :
               i # j => find_ret.value[i] # reverse_complement(find_ret.value[j])

\* C3: when X is a forward match and reverse_complement(X) is matched by the scan
\* over the reverse complement of the input, the returned list holds X exactly once
\* and does not hold the reverse-orientation duplicate.
C3_StrandSymmetryDedup ==
    (FinderReturned /\ IsDNA(NormalisedInput))
        => LET forward == pattern_findall(NormalisedInput, gRNA_length)
               reverse == pattern_findall(reverse_complement(NormalisedInput), gRNA_length)
           IN  \A X \in Range(forward) :
                   reverse_complement(X) \in Range(reverse)
                       => /\ Occurrences(find_ret.value, X) = 1
                          /\ (reverse_complement(X) # X
                                 => reverse_complement(X) \notin Range(find_ret.value))

C9_ShortLengthFailsBeforeIO ==
    (pc = "finder_done" /\ gRNA_length < 12)
        => /\ find_ret.status = "ValueError"
           /\ find_ret.value = <<>>
           /\ io_log = <<>>

C9_Witness ==
    /\ pc = "finder_done"
    /\ gRNA_length < 12
    /\ find_ret.status = "ValueError"
    /\ pattern_findall(NormalisedInput, gRNA_length) # <<>>

\* ---------------------------------------- claims: Off-Target Classifier
FilterReturned == pc \in {"filter_done", "refilter_done"}

ClassifierInput == fs["co_out"].content

TabCount(line) == Cardinality({i \in 1..Len(line) : line[i] = "\t"})

IsHeaderLine(line) == line # <<>> /\ line[1] = "#"

\* A data row: a non-blank line whose first non-whitespace character is not '#'.
IsDataLine(line) == strip(line) # <<>> /\ ~IsHeaderLine(strip(line))

WellFormedInput == \A i \in 1..Len(ClassifierInput) :
    IsDataLine(ClassifierInput[i]) => TabCount(ClassifierInput[i]) >= 3

RowId(line) == split(line, "\t")[1]

RowSeq(line) == split(line, "\t")[4]

LowercaseIn(seq, positions) ==
    Cardinality({i \in positions \cap (1..Len(seq)) : seq[i] \in LowerChars})

\* p: lowercase count in positions -15..-4; d: lowercase count before them.
ProximalCount(seq) == LowercaseIn(seq, (Len(seq) - 14)..(Len(seq) - 3))

DistalCount(seq) == LowercaseIn(seq, 1..(Len(seq) - 15))

Disqualifying(seq, level) ==
    LET p == ProximalCount(seq)
        d == DistalCount(seq)
    IN  IF level = "high"
        THEN p = 0 \/ (p = 1 /\ d < 2)
        ELSE p = 0 \/ (p = 1 /\ d < 5) \/ (p = 2 /\ d < 2)

RowsOf(id) ==
    {i \in 1..Len(ClassifierInput) :
        IsDataLine(ClassifierInput[i]) /\ RowId(ClassifierInput[i]) = id}

ShouldAccept(id, level) ==
    /\ \E i \in RowsOf(id) : LowercaseIn(RowSeq(ClassifierInput[i]), 1..Len(RowSeq(ClassifierInput[i]))) = 0
    /\ ~\E i \in RowsOf(id) :
           /\ LowercaseIn(RowSeq(ClassifierInput[i]), 1..Len(RowSeq(ClassifierInput[i]))) > 0
           /\ Disqualifying(RowSeq(ClassifierInput[i]), level)

\* C1: for well-formed rows and a level in {high, maximum}, a guide is accepted
\* iff its group has a row without lowercase characters and no row with a
\* lowercase character is disqualifying at that level, whatever the order of the
\* rows (the scan's early stop changes nothing).
C1_GroupAcceptance ==
    (FilterReturned /\ WellFormedInput /\ stringency \in {"high", "maximum"})
        => /\ flt_ret.status = "ok"
           /\ \A id \in {Guide1, Guide2} :
                  (id \in Range(flt_ret.accepted_ids)) <=> ShouldAccept(id, stringency)

\* A group rejected by a disqualifying row that precedes its on-target row (the
\* scan stops before it sees the on-target), next to an accepted group.
C1_Witness ==
    /\ pc = "filter_done"
    /\ stringency = "maximum"
    /\ flt_ret.status = "ok"
    /\ flt_ret.accepted_ids = <<Guide1>>
    /\ Len(ClassifierInput) = 3
    /\ ClassifierInput[1] = DataLine(Guide2, <<2, 1, 0>>, << <<"+">> >>)
    /\ ClassifierInput[2] = DataLine(Guide2, <<0, 0, 0>>, << <<"+">> >>)
    /\ ClassifierInput[3] = DataLine(Guide1, <<0, 0, 0>>, <<>>)

\* The suffix a zero-mismatch line carries in the output.
OnTargetSuffix == <<" ", "#", " ", "0", "M", "M">>

WithSuffix(line) ==
    line \o (IF LowercaseIn(RowSeq(line), 1..Len(RowSeq(line))) = 0 THEN OnTargetSuffix ELSE <<>>)

AcceptedRows ==
    {i \in 1..Len(ClassifierInput) :
        /\ IsDataLine(ClassifierInput[i])
        /\ RowId(ClassifierInput[i]) \in Range(flt_ret.accepted_ids)}

FirstRow(id) == CHOOSE i \in RowsOf(id) : \A j \in RowsOf(id) : i <= j

\* Row i is emitted before row j: its guide appears first in the input, or they
\* share the guide and i comes first.
EmittedBefore(i, j) ==
    LET gi == RowId(ClassifierInput[i])
        gj == RowId(ClassifierInput[j])
    IN  IF gi = gj THEN i < j ELSE FirstRow(gi) < FirstRow(gj)

HasMalformedRow == \E i \in 1..Len(ClassifierInput) :
    IsDataLine(ClassifierInput[i]) /\ TabCount(ClassifierInput[i]) < 3

\* C6: with a data row of fewer than 4 tab-separated fields anywhere in the
\* input, the call ends in an error and the output file is neither created nor
\* written.
C6_MalformedRowFails ==
    (FilterReturned /\ HasMalformedRow)
        => /\ flt_ret.status = "IndexError"
           /\ ~fs["out"].exists
           /\ \A k \in 1..Len(io_log) : io_log[k][1] # "write"

\* The malformed row comes last, after the rows of a guide that would be accepted.
C6_Witness ==
    /\ pc = "filter_done"
    /\ flt_ret.status = "IndexError"
    /\ Len(ClassifierInput) = 3
    /\ ClassifierInput[1] = DataLine(Guide2, <<0, 0, 0>>, << <<"+">> >>)
    /\ ClassifierInput[2] \in HeaderLines
    /\ ClassifierInput[3] \in MalformedLines

\* C7: with a level other than high or maximum the call fails with the
\* invalid-parameter error for every input, before any file is read or written.
C7_UnknownLevelFailsBeforeIO ==
    (FilterReturned /\ stringency \notin {"high", "maximum"})
        => /\ flt_ret.status = "ValueError"
           /\ io_log = <<>>
           /\ ~fs["out"].exists

\* C8: run on the file it produced, under the same level, the classifier accepts
\* exactly the guides the first run accepted.
C8_IdempotentOnOutput ==
    (pc = "refilter_done" /\ stringency \in {"high", "maximum"})
        => /\ flt_ret2.status = "ok"
           /\ Range(flt_ret2.accepted_ids) = Range(flt_ret.accepted_ids)

\* The file read back holds a suffixed four-field row, a kept off-target row
\* and a suffixed five-field row.
C8_Witness ==
    /\ pc = "refilter_done"
    /\ stringency = "high"
    /\ flt_ret2.status = "ok"
    /\ flt_ret.accepted_ids = <<Guide1, Guide2>>
    /\ fs["out"].content = <<DataLine(Guide1, <<0, 0, 0>>, <<>>) \o OnTargetSuffix,
                     DataLine(Guide1, <<2, 1, 0>>, <<>>),
                     DataLine(Guide2, <<0, 0, 0>>, << <<"+">> >>) \o OnTargetSuffix>>

\* ------------------------------------------------------ claims: pipeline
ToolInvocations == {k \in 1..Len(io_log) : io_log[k] = <<"exec", "cas-offinder">>}

ClassifierReads == {k \in 1..Len(io_log) : io_log[k] = <<"read", "co_out">>}

ClassifierRan == flt_ret.status # "not_called"

\* C10: in every state of every run of main, the tool has been invoked only after
\* a non-empty candidate list (an empty list ends the run with the tool never
\* invoked), the classifier has run only after an invocation that exited with
\* status zero, and after a non-zero exit the run ends without classification
\* and without the final output file.
C10_StagesGated ==
    /\ ToolInvocations # {} => (find_ret.status = "ok" /\ find_ret.value # <<>>)
    /\ (find_ret.status = "ok" /\ find_ret.value = <<>>)
           => (pc = "exit_no_candidates" /\ ToolInvocations = {} /\ ~ClassifierRan)
    /\ (ClassifierRan \/ ClassifierReads # {})
           => /\ tool_exit = 0
              /\ \A r \in ClassifierReads : \E k \in ToolInvocations : k < r
    /\ pc = "filter" => (ToolInvocations # {} /\ tool_exit = 0)
    /\ tool_exit \notin {-1, 0}
           => /\ pc \in {"finally", "exit_error"}
              /\ ~ClassifierRan
              /\ ClassifierReads = {}
              /\ ~fs["out"].exists

\* A run in which the tool exited non-zero after leaving an output file, ended.
C10_Witness ==
    /\ pc = "exit_error"
    /\ tool_exit = 1
    /\ find_ret.value # <<>>
    /\ save_temp
    /\ fs["co_out"].exists
    /\ fs["co_out"].content # <<>>

====
